---------------------------- MODULE Spec2Model ----------------------------
(***************************************************************************)
(* POS Panaderia (Next.js + Firestore): the cart of POSTab, the checkout   *)
(* transaction of POSTab.cobrar against the Firestore collections          *)
(* "products" and "sales", the catalog edits of StockTab and the daily     *)
(* balance of BalanceTab.grouped.                                          *)
(*                                                                         *)
(* Costs and prices are integers.  Quantities and stocks are JavaScript     *)
(* numbers and the quantity input accepts fractions: they are counted here *)
(* in fractions 1/One of a unit, the number 1 being One, and so are the    *)
(* totals that multiply a price by a quantity.  runTransaction is          *)
(* the Firestore client transaction: every tx.get is a read of its own,    *)
(* the buffered writes commit atomically if and only if no document read   *)
(* has been written since it was read, a conflict re-runs the update       *)
(* function, and an Error thrown by the update function rejects the        *)
(* transaction without a retry.                                            *)
(***************************************************************************)
EXTENDS Integers, Sequences, FiniteSets, TLC

\* ------------------------------------------------------------- bounds
One == 2           \* the fractions of a unit that make the number 1
MaxStock == 2      \* the largest stock a product document holds, in units
MaxQty == 2        \* the largest value typed into a quantity input, in units
MaxLines == 2      \* cart lines
MaxUndo == 2       \* undo entries
CartMaxSales == 1  \* sale documents written, with one session
CartMaxCommit == 1 \* lines of a cart checked out, with one session
MaxSales == 2      \* sale documents written
MaxPending == 1    \* invocations of cobrar in flight in one session
MaxVer == 1        \* catalog edits accepted on one product document
MaxDay == 2        \* calendar days
MaxClicks == 2     \* calls of cobrar in flight on one cart, where Cobrar is pressed again

\* ------------------------------------------------------ program constants
\* runTransaction is called without options: Firestore's default maxAttempts
MaxAttempts == 5

Sessions == {"s1", "s2"}

\* Document ids of the "products" collection.  "PAN" is the code POSTab
\* reserves for bread sold by weight; StockTab.addProduct accepts any code.
Codes == {"A", "B", "PAN"}

NameOf(code) ==
  CASE code = "A" -> "Medialuna"
    [] code = "B" -> "Factura"
    [] code = "PAN" -> "Pan lactal"
    [] OTHER -> ""

VARIABLES
  store,      \* collection "products": code -> document (with its version)
  sales,      \* collection "sales": the ledger, in commit order
  products,   \* per session: useProducts() snapshot of the catalog
  cart,       \* per session: POSTab cart state
  undoStack,  \* per session: POSTab undoStack state
  pending,    \* per session: cobrar() invocations that have not returned
  today,      \* the calendar day in America/Argentina/Buenos_Aires
  balance,    \* BalanceTab: its sales state and the grouped rows it renders
  history,    \* per session: App's sales state (useSales), newest first
  tab         \* per session: App's tab state

vars == <<store, sales, products, cart, undoStack, pending, today, balance, history, tab>>

\* ------------------------------------------------------------- helpers
Max(a, b) == IF a >= b THEN a ELSE b

Prepend(x, s) == <<x>> \o s

RemoveAt(s, k) == [i \in 1..(Len(s) - 1) |-> IF i < k THEN s[i] ELSE s[i + 1]]

\* String.prototype.trim on the scan field's contents
Trim(raw) ==
  CASE raw = " A" -> "A"
    [] raw = "B " -> "B"
    [] raw = " " -> ""
    [] OTHER -> raw

\* Math.round(c * (1 + m / 100))
calcPrice(cost, margin) == (cost * (100 + margin) + 50) \div 100

\* a product document as a snapshot listener delivers it
NoProduct == [exists |-> FALSE, cost |-> 0, margin |-> 0, stock |-> 0]

DocData(d) ==
  IF d.exists
    THEN [exists |-> TRUE, cost |-> d.cost, margin |-> d.margin, stock |-> d.stock]
    ELSE NoProduct

\* new Map(products.map(p => [p.code, p])).get(key)
productsMap(prods, key) == IF key \in Codes THEN prods[key] ELSE NoProduct

\* prev.findIndex(i => i.code === code) + 1; 0 when there is none
FindIndex(lines, code) ==
  IF \E i \in 1..Len(lines) : lines[i].code = code
    THEN CHOOSE i \in 1..Len(lines) :
           /\ lines[i].code = code
           /\ \A j \in 1..(i - 1) : lines[j].code # code
    ELSE 0

\* prev.filter(i => i.code !== code)
RECURSIVE FilterCode(_, _)
FilterCode(lines, code) ==
  IF lines = <<>> THEN <<>>
  ELSE IF Head(lines).code = code THEN FilterCode(Tail(lines), code)
  ELSE Prepend(Head(lines), FilterCode(Tail(lines), code))

\* cart.reduce((acc, i) => acc + i.price * i.qty, 0)
RECURSIVE total(_)
total(lines) ==
  IF lines = <<>> THEN 0
  ELSE Head(lines).price * Head(lines).qty + total(Tail(lines))


\* ------------------------------------------------- POSTab: the cart handlers
\* Each handler is an operator from the state it reads to the state it leaves:
\* [cart, undoStack, toast], toast = "" when it shows none.
Result(c, u, t) == [cart |-> c, undoStack |-> u, toast |-> t]

\* addByCode with the price of the line taken anew from the snapshot on every
\* merge instead of kept from the line
addByCodeRepricesOnMerge(lines, stack, prods, code, qty) ==
  LET key == Trim(code)
      prod == productsMap(prods, key)
      idx == FindIndex(lines, key)
      existingQty == IF idx > 0 THEN lines[idx].qty ELSE 0
      price == calcPrice(prod.cost, prod.margin)
  IN IF ~prod.exists THEN Result(lines, stack, "Codigo no encontrado")
     ELSE IF existingQty + qty > prod.stock
       THEN Result(lines, stack, "Stock insuficiente")
     ELSE Result(
            IF idx > 0
              THEN [lines EXCEPT ![idx].qty = @ + qty, ![idx].price = price]
              ELSE Prepend([code |-> key, name |-> NameOf(key),
                            price |-> price, qty |-> qty], lines),
            Prepend([type |-> "add", code |-> code, qty |-> qty], stack), "")

\* POSTab.addByCode(code, qty)
addByCode(lines, stack, prods, code, qty) ==
  LET key == Trim(code)
      prod == productsMap(prods, key)
      idx == FindIndex(lines, key)
      existingQty == IF idx > 0 THEN lines[idx].qty ELSE 0
  IN IF ~prod.exists THEN Result(lines, stack, "Codigo no encontrado")
     ELSE IF existingQty + qty > prod.stock
       THEN Result(lines, stack, "Stock insuficiente")
     ELSE Result(
            IF idx > 0
              THEN [lines EXCEPT ![idx].qty = @ + qty]
              ELSE Prepend([code |-> key, name |-> NameOf(key),
                            price |-> calcPrice(prod.cost, prod.margin), qty |-> qty], lines),
            Prepend([type |-> "add", code |-> code, qty |-> qty], stack), "")

\* POSTab.onScanEnter with the scan field holding `scan`
onScanEnter(lines, stack, prods, scan) ==
  LET code == Trim(scan)
  IN IF code = "" THEN Result(lines, stack, "")
     ELSE addByCode(lines, stack, prods, code, One)

\* POSTab.changeQty(code, qty): defined, and wired to no control
changeQty(lines, stack, prods, code, qty) ==
  LET prod == productsMap(prods, code)
      q == Max(One, IF qty = 0 THEN One ELSE qty)
  IN IF ~prod.exists THEN Result(lines, stack, "")
     ELSE IF q > prod.stock THEN Result(lines, stack, "Stock insuficiente")
     ELSE Result([i \in 1..Len(lines) |->
                    IF lines[i].code = code THEN [lines[i] EXCEPT !.qty = q] ELSE lines[i]],
                 stack, "")

\* the quantity input's onChange on cart row k, the input holding `value`
qtyOnChange(lines, stack, prods, k, value) ==
  LET val == Max(One, IF value = 0 THEN One ELSE value)
      prod == productsMap(prods, lines[k].code)
  IN IF lines[k].code # "PAN" /\ prod.exists /\ val > prod.stock
       THEN Result(lines, stack, "Stock insuficiente")
       ELSE Result([lines EXCEPT ![k].qty = val], stack, "")

\* POSTab.removeItem(code)
removeItem(lines, stack, code) == Result(FilterCode(lines, code), stack, "")

\* POSTab.cancelAll
cancelAll(lines, stack) == Result(<<>>, <<>>, "")

undoKeepLine(lines, stack) ==
  IF stack = <<>> THEN Result(lines, stack, "")
  ELSE LET last == Head(stack)
           idx == FindIndex(lines, last.code)
       IN IF idx = 0 THEN Result(lines, Tail(stack), "")
          ELSE Result([lines EXCEPT ![idx].qty = @ - last.qty], Tail(stack), "")

\* POSTab.undo
undo(lines, stack) ==
  IF stack = <<>> THEN Result(lines, stack, "")
  ELSE LET last == Head(stack)
           idx == FindIndex(lines, last.code)
       IN IF idx = 0 THEN Result(lines, Tail(stack), "")
          ELSE IF lines[idx].qty - last.qty <= 0
            THEN Result(FilterCode(lines, last.code), Tail(stack), "")
          ELSE Result([lines EXCEPT ![idx].qty = @ - last.qty], Tail(stack), "")

\* parseNumberOrZero on the modal's field, then PanModal.confirmar's price:
\* mode "precio" takes the field as the price, mode "peso" takes it as grams
panPrice(mode, value, pricePerKg) ==
  IF mode = "precio" THEN value
  ELSE (2 * value * pricePerKg + 1000) \div 2000

\* PanModal.confirmar, with POSTab's onAdd
panConfirmar(lines, stack, mode, value, pricePerKg) ==
  IF value > 0
    THEN Result(Prepend([code |-> "PAN", name |-> "Pan",
                         price |-> panPrice(mode, value, pricePerKg), qty |-> One], lines),
                stack, "")
    ELSE Result(lines, stack, "")


\* the line POSTab's onAdd prepends for PanModal: the one line of the cart
\* that addByCode has not made from a catalog product
addedByPanModal(line) == line.code = "PAN" /\ line.name = "Pan"

\* ------------------------------------------- POSTab.cobrar: the transaction
\* snaps[i] of the update function: null for a "PAN" line, else what tx.get
\* returned for line i, once it has returned
Unread == [read |-> FALSE, exists |-> FALSE, stock |-> 0, cost |-> 0, ver |-> 0]

NullSnap == [read |-> TRUE, exists |-> FALSE, stock |-> 0, cost |-> 0, ver |-> 0]

SnapOf(d) ==
  [read |-> TRUE, exists |-> d.exists, stock |-> d.stock, cost |-> d.cost, ver |-> d.ver]

\* indexed.map(({ ref }) => ref ? tx.get(ref) : Promise.resolve(null)), all pending
FreshSnaps(lines) ==
  [i \in 1..Len(lines) |-> IF lines[i].code # "PAN" THEN Unread ELSE NullSnap]

\* the invocation of cobrar: the cart and total of the render it closes over,
\* whether the POSTab it belongs to is still mounted, and which of the calls
\* in flight it is
NewPending(lines, call) ==
  [cart |-> lines, total |-> total(lines), attempt |-> 1, snaps |-> FreshSnaps(lines),
   pc |-> "run", err |-> "", saleId |-> 0, mounted |-> TRUE, call |-> call]

FirstInvalidNoStock(lines, snaps) ==
  LET bad == {i \in 1..Len(lines) : lines[i].code # "PAN" /\ ~snaps[i].exists}
  IN IF bad = {} THEN 0 ELSE CHOOSE i \in bad : \A j \in bad : i <= j

\* the first line whose validation throws; 0 when none does
FirstInvalid(lines, snaps) ==
  LET bad == {i \in 1..Len(lines) :
                /\ lines[i].code # "PAN"
                /\ (~snaps[i].exists \/ snaps[i].stock < lines[i].qty)}
  IN IF bad = {} THEN 0 ELSE CHOOSE i \in bad : \A j \in bad : i <= j

\* the Error the update function throws at line i
ValidationError(snaps, i) ==
  IF ~snaps[i].exists THEN "Producto no encontrado" ELSE "Stock insuficiente"

\* itemsForSale, and the items written to the sale document
itemsForSale(lines, snaps) ==
  [i \in 1..Len(lines) |->
     [code |-> lines[i].code, name |-> lines[i].name, qty |-> lines[i].qty,
      price |-> lines[i].price,
      costAtSale |-> IF lines[i].code = "PAN" THEN 0 ELSE snaps[i].cost]]

\* the last tx.update buffered for document `code`; 0 when there is none
LastUpdate(lines, code) ==
  LET upd == {i \in 1..Len(lines) : lines[i].code = code /\ code # "PAN"}
  IN IF upd = {} THEN 0 ELSE CHOOSE i \in upd : \A j \in upd : j <= i

\* the transaction's commit fails when a document it read has been written since
Conflict(lines, snaps) ==
  \E i \in 1..Len(lines) :
    /\ lines[i].code # "PAN"
    /\ \/ store[lines[i].code].ver # snaps[i].ver
       \/ store[lines[i].code].exists # snaps[i].exists

\* the "products" collection after the buffered tx.update calls
StoreAfter(lines, snaps) ==
  [c \in Codes |->
     LET i == LastUpdate(lines, c)
     IN IF i = 0 THEN store[c]
        ELSE [store[c] EXCEPT !.stock = snaps[i].stock - lines[i].qty, !.ver = @ + 1]]

\* A sale document without the localDate field, as the Sale type allows
NoDate == 0

\* todayLocalDateAR() on day `now`
todayLocalDateAR(now) == now

\* the same document built from the cart on screen when the commit happens
SaleDocOfLiveCart(s, p) ==
  [id |-> Len(sales) + 1, localDate |-> today, user |-> s,
   items |-> [i \in 1..Len(cart[s]) |->
                [code |-> cart[s][i].code, name |-> cart[s][i].name, qty |-> cart[s][i].qty,
                 price |-> cart[s][i].price, costAtSale |-> 0]],
   total |-> total(cart[s])]

\* the document tx.set writes to "sales"
SaleDoc(s, p) ==
  [id |-> Len(sales) + 1, localDate |-> today, user |-> s,
   items |-> itemsForSale(p.cart, p.snaps), total |-> p.total]

InFlight == {s \in Sessions : pending[s] # <<>>}

\* a field the object does not have
Undefined == -1

\* crypto.randomUUID() for the n-th sale: a value no Firestore document id equals
randomUUID(n) == 0 - n

\* the Sale cobrar builds after the transaction and hands to onSaleRecorded;
\* the lines of the cart carry no costAtSale
localSale(s, p, now) ==
  [id |-> randomUUID(p.saleId), localDate |-> todayLocalDateAR(now), user |-> s,
   items |-> [i \in 1..Len(p.cart) |->
                [code |-> p.cart[i].code, name |-> p.cart[i].name, qty |-> p.cart[i].qty,
                 price |-> p.cart[i].price,
                 costAtSale |-> IF p.cart[i].code = "PAN" THEN 0 ELSE Undefined]],
   total |-> p.total]

\* useSales: the documents of "sales" ordered by "at" descending, as Sale values
salesSnapshot(ledger) ==
  [i \in 1..Len(ledger) |-> ledger[Len(ledger) + 1 - i]]

\* ------------------------------------------------ BalanceTab.grouped
\* the inner loop over s.items with the cost looked up in the catalog
\* instead of taken from the item
RECURSIVE dayTotalsCatalogCost(_)
dayTotalsCatalogCost(items) ==
  IF items = <<>> THEN [cost |-> 0, profit |-> 0, total |-> 0]
  ELSE LET it == Head(items)
           rest == dayTotalsCatalogCost(Tail(items))
           rev == it.price * it.qty
           costUnit == IF addedByPanModal(it) THEN 0 ELSE store[it.code].cost
           cst == costUnit * it.qty
       IN [cost |-> cst + rest.cost, profit |-> (rev - cst) + rest.profit,
           total |-> rev + rest.total]

\* the inner loop over s.items: dayCost, dayProfit, dayTotal
RECURSIVE dayTotals(_)
dayTotals(items) ==
  IF items = <<>> THEN [cost |-> 0, profit |-> 0, total |-> 0]
  ELSE LET it == Head(items)
           rest == dayTotals(Tail(items))
           rev == it.price * it.qty
           costUnit == IF it.costAtSale = Undefined THEN 0 ELSE it.costAtSale
           cst == costUnit * it.qty
       IN [cost |-> cst + rest.cost, profit |-> (rev - cst) + rest.profit,
           total |-> rev + rest.total]

\* the Map after the loop over the sales, its entries in insertion order
RECURSIVE groupMap(_, _, _)
groupMap(list, now, map) ==
  IF list = <<>> THEN map
  ELSE LET sale == Head(list)
           key == IF sale.localDate # NoDate THEN sale.localDate ELSE todayLocalDateAR(now)
           d == dayTotals(sale.items)
           at == IF \E i \in 1..Len(map) : map[i].date = key
                   THEN CHOOSE i \in 1..Len(map) : map[i].date = key
                   ELSE 0
       IN groupMap(Tail(list), now,
            IF at = 0
              THEN Append(map, [date |-> key, cost |-> d.cost, profit |-> d.profit,
                                total |-> d.total])
              ELSE [map EXCEPT ![at].cost = @ + d.cost, ![at].profit = @ + d.profit,
                               ![at].total = @ + d.total])

\* Array.sort((a, b) => (a[0] < b[0] ? 1 : -1)): one entry put in its place
sortInsert(rows, e) ==
  LET before == {i \in 1..Len(rows) : ~(rows[i].date < e.date)}
      n == Cardinality(before)
  IN SubSeq(rows, 1, n) \o <<e>> \o SubSeq(rows, n + 1, Len(rows))

RECURSIVE sortDesc(_)
sortDesc(entries) ==
  IF entries = <<>> THEN <<>>
  ELSE sortInsert(sortDesc(Tail(entries)), Head(entries))

\* BalanceTab.grouped of the sales state, computed on day `now`
grouped(list, now) == sortDesc(groupMap(list, now, <<>>))

\* ------------------------------------------------------------- actions
\* No session touches its cart while it has a checkout in flight
Idle(s) == pending[s] = <<>>

Apply(s, r) ==
  /\ cart' = [cart EXCEPT ![s] = r.cart]
  /\ undoStack' = [undoStack EXCEPT ![s] = r.undoStack]

OnScanEnter(s, scan, maxLines, maxUndo) ==
  LET r == onScanEnter(cart[s], undoStack[s], products[s], scan)
  IN /\ Len(r.cart) <= maxLines
     /\ Len(r.undoStack) <= maxUndo
     /\ Apply(s, r)
     /\ UNCHANGED <<store, sales, products, pending, today, balance, history, tab>>

QtyOnChange(s, k, value) ==
  /\ k \in 1..Len(cart[s])
  /\ Apply(s, qtyOnChange(cart[s], undoStack[s], products[s], k, value))
  /\ UNCHANGED <<store, sales, products, pending, today, balance, history, tab>>

RemoveItem(s, k) ==
  /\ k \in 1..Len(cart[s])
  /\ Apply(s, removeItem(cart[s], undoStack[s], cart[s][k].code))
  /\ UNCHANGED <<store, sales, products, pending, today, balance, history, tab>>

CancelAll(s) ==
  /\ Apply(s, cancelAll(cart[s], undoStack[s]))
  /\ UNCHANGED <<store, sales, products, pending, today, balance, history, tab>>

Undo(s) ==
  /\ Apply(s, undo(cart[s], undoStack[s]))
  /\ UNCHANGED <<store, sales, products, pending, today, balance, history, tab>>

PanConfirmar(s, mode, value, pricePerKg, maxLines) ==
  LET r == panConfirmar(cart[s], undoStack[s], mode, value, pricePerKg)
  IN /\ Len(r.cart) <= maxLines
     /\ Apply(s, r)
     /\ UNCHANGED <<store, sales, products, pending, today, balance, history, tab>>

\* a number no call in flight has
NewCall(inflight) ==
  CHOOSE n \in 1..(Len(inflight) + 1) :
    /\ \A k \in 1..Len(inflight) : inflight[k].call # n
    /\ \A m \in 1..(n - 1) : \E k \in 1..Len(inflight) : inflight[k].call = m

\* cobrar up to its await: the invocations in flight after it, and its toast
cobrar(inflight, lines) ==
  IF lines = <<>>
    THEN [pending |-> inflight, toast |-> "No hay productos"]
    ELSE [pending |-> Append(inflight, NewPending(lines, NewCall(inflight))), toast |-> ""]

\* the Cobrar button, which stays enabled while a call of cobrar is in flight
CobrarClick(s, maxLines, maxSales, maxPending) ==
  /\ Len(pending[s]) < maxPending
  /\ Len(cart[s]) <= maxLines
  /\ Len(sales) + Cardinality(InFlight) < maxSales
  /\ pending' = [pending EXCEPT ![s] = cobrar(@, cart[s]).pending]
  /\ UNCHANGED <<store, sales, products, cart, undoStack, today, balance, history, tab>>

Cobrar(s, maxLines, maxSales) == CobrarClick(s, maxLines, maxSales, MaxPending)

\* one tx.get of the update function returns
TxGet(s, k, i) ==
  /\ k \in 1..Len(pending[s])
  /\ pending[s][k].pc = "run"
  /\ i \in 1..Len(pending[s][k].cart)
  /\ ~pending[s][k].snaps[i].read
  /\ pending' = [pending EXCEPT ![s][k].snaps[i] = SnapOf(store[pending[s][k].cart[i].code])]
  /\ UNCHANGED <<store, sales, products, cart, undoStack, today, balance, history, tab>>

TxCommitWritesBeforeThrow(s, k) ==
  /\ k \in 1..Len(pending[s])
  /\ pending[s][k].pc = "run"
  /\ \A i \in 1..Len(pending[s][k].cart) : pending[s][k].snaps[i].read
  /\ LET p == pending[s][k]
         bad == FirstInvalid(p.cart, p.snaps)
     IN IF bad # 0
          THEN /\ pending' = [pending EXCEPT ![s][k].pc = "failed",
                                             ![s][k].err = ValidationError(p.snaps, bad)]
               /\ store' = StoreAfter(SubSeq(p.cart, 1, bad - 1), p.snaps)
               /\ UNCHANGED sales
        ELSE IF Conflict(p.cart, p.snaps)
          THEN /\ pending' = [pending EXCEPT ![s][k] =
                    IF p.attempt < MaxAttempts
                      THEN [p EXCEPT !.attempt = @ + 1, !.snaps = FreshSnaps(p.cart)]
                      ELSE [p EXCEPT !.pc = "failed", !.err = "aborted"]]
               /\ UNCHANGED <<store, sales>>
        ELSE /\ store' = StoreAfter(p.cart, p.snaps)
             /\ sales' = Append(sales, SaleDoc(s, p))
             /\ pending' = [pending EXCEPT ![s][k].pc = "ok",
                                           ![s][k].saleId = Len(sales) + 1]
  /\ UNCHANGED <<products, cart, undoStack, today, balance, history, tab>>

TxCommitRetriesForever(s, k) ==
  /\ k \in 1..Len(pending[s])
  /\ pending[s][k].pc = "run"
  /\ \A i \in 1..Len(pending[s][k].cart) : pending[s][k].snaps[i].read
  /\ LET p == pending[s][k]
         bad == FirstInvalid(p.cart, p.snaps)
     IN IF bad # 0
          THEN /\ pending' = [pending EXCEPT ![s][k].pc = "failed",
                                             ![s][k].err = ValidationError(p.snaps, bad)]
               /\ UNCHANGED <<store, sales>>
        ELSE IF Conflict(p.cart, p.snaps)
          THEN /\ pending' = [pending EXCEPT ![s][k] =
                    [p EXCEPT !.attempt = @ + 1, !.snaps = FreshSnaps(p.cart)]]
               /\ UNCHANGED <<store, sales>>
        ELSE /\ store' = StoreAfter(p.cart, p.snaps)
             /\ sales' = Append(sales, SaleDoc(s, p))
             /\ pending' = [pending EXCEPT ![s][k].pc = "ok",
                                           ![s][k].saleId = Len(sales) + 1]
  /\ UNCHANGED <<products, cart, undoStack, today, balance, history, tab>>

\* the same with the Sale set on one fixed document instead of a new one
TxCommitOneSaleDocument(s, k) ==
  /\ k \in 1..Len(pending[s])
  /\ pending[s][k].pc = "run"
  /\ \A i \in 1..Len(pending[s][k].cart) : pending[s][k].snaps[i].read
  /\ LET p == pending[s][k]
         bad == FirstInvalid(p.cart, p.snaps)
     IN IF bad # 0
          THEN /\ pending' = [pending EXCEPT ![s][k].pc = "failed",
                                             ![s][k].err = ValidationError(p.snaps, bad)]
               /\ UNCHANGED <<store, sales>>
        ELSE IF Conflict(p.cart, p.snaps)
          THEN /\ pending' = [pending EXCEPT ![s][k] =
                    IF p.attempt < MaxAttempts
                      THEN [p EXCEPT !.attempt = @ + 1, !.snaps = FreshSnaps(p.cart)]
                      ELSE [p EXCEPT !.pc = "failed", !.err = "aborted"]]
               /\ UNCHANGED <<store, sales>>
        ELSE /\ store' = StoreAfter(p.cart, p.snaps)
             /\ sales' = IF sales = <<>> THEN <<SaleDoc(s, p)>>
                         ELSE [sales EXCEPT ![1] = SaleDoc(s, p)]
             /\ pending' = [pending EXCEPT ![s][k].pc = "ok", ![s][k].saleId = 1]
  /\ UNCHANGED <<products, cart, undoStack, today, balance, history, tab>>

\* the rest of the update function once every tx.get has returned, and the
\* commit of what it buffered
TxCommit(s, k) ==
  /\ k \in 1..Len(pending[s])
  /\ pending[s][k].pc = "run"
  /\ \A i \in 1..Len(pending[s][k].cart) : pending[s][k].snaps[i].read
  /\ LET p == pending[s][k]
         bad == FirstInvalid(p.cart, p.snaps)
     IN IF bad # 0
          THEN /\ pending' = [pending EXCEPT ![s][k].pc = "failed",
                                             ![s][k].err = ValidationError(p.snaps, bad)]
               /\ UNCHANGED <<store, sales>>
        ELSE IF Conflict(p.cart, p.snaps)
          THEN /\ pending' = [pending EXCEPT ![s][k] =
                    IF p.attempt < MaxAttempts
                      THEN [p EXCEPT !.attempt = @ + 1, !.snaps = FreshSnaps(p.cart)]
                      ELSE [p EXCEPT !.pc = "failed", !.err = "aborted"]]
               /\ UNCHANGED <<store, sales>>
        ELSE /\ store' = StoreAfter(p.cart, p.snaps)
             /\ sales' = Append(sales, SaleDoc(s, p))
             /\ pending' = [pending EXCEPT ![s][k].pc = "ok",
                                           ![s][k].saleId = Len(sales) + 1]
  /\ UNCHANGED <<products, cart, undoStack, today, balance, history, tab>>

CobrarDoneClearsAlways(s, k) ==
  /\ k \in 1..Len(pending[s])
  /\ pending[s][k].pc \in {"ok", "failed"}
  /\ cart' = [cart EXCEPT ![s] = <<>>]
  /\ undoStack' = [undoStack EXCEPT ![s] = <<>>]
  /\ pending' = [pending EXCEPT ![s] = RemoveAt(@, k)]
  /\ history' = [history EXCEPT ![s] =
       IF pending[s][k].pc = "ok"
         THEN Prepend(localSale(s, pending[s][k], today), @) ELSE @]
  /\ UNCHANGED <<store, sales, products, today, balance, tab>>

\* cobrar after its await: the success path, or the catch. setCart and
\* setUndoStack are the setters of the POSTab that invoked cobrar: once that
\* one is unmounted they set nothing.
CobrarDone(s, k) ==
  /\ k \in 1..Len(pending[s])
  /\ pending[s][k].pc \in {"ok", "failed"}
  /\ IF pending[s][k].pc = "ok" /\ pending[s][k].mounted
       THEN /\ cart' = [cart EXCEPT ![s] = <<>>]
            /\ undoStack' = [undoStack EXCEPT ![s] = <<>>]
       ELSE UNCHANGED <<cart, undoStack>>
  /\ history' = [history EXCEPT ![s] =
       IF pending[s][k].pc = "ok"
         THEN Prepend(localSale(s, pending[s][k], today), @) ELSE @]
  /\ pending' = [pending EXCEPT ![s] = RemoveAt(@, k)]
  /\ UNCHANGED <<store, sales, products, today, balance, tab>>

\* useProducts: the onSnapshot listener delivers the current catalog
ProductsSnapshot(s) ==
  /\ products[s] # [c \in Codes |-> DocData(store[c])]
  /\ products' = [products EXCEPT ![s] = [c \in Codes |-> DocData(store[c])]]
  /\ UNCHANGED <<store, sales, cart, undoStack, pending, today, balance, history, tab>>

\* useSales: the onSnapshot listener delivers the current ledger
SalesSnapshot(s) ==
  /\ history[s] # salesSnapshot(sales)
  /\ history' = [history EXCEPT ![s] = salesSnapshot(sales)]
  /\ UNCHANGED <<store, sales, products, cart, undoStack, pending, today, balance, tab>>

\* the buttons of App's tab bar
Tabs == {"stock", "pos", "historial", "ajustes", "balance"}

\* setTab(t). App renders POSTab only while tab is "pos": leaving it unmounts
\* POSTab, whose cart and undoStack are gone, and coming back mounts a new one
\* whose state starts empty; a cobrar the old one has in flight goes on.
SelectTab(s, t) ==
  /\ t \in Tabs
  /\ t # tab[s]
  /\ tab' = [tab EXCEPT ![s] = t]
  /\ IF tab[s] = "pos"
       THEN /\ cart' = [cart EXCEPT ![s] = <<>>]
            /\ undoStack' = [undoStack EXCEPT ![s] = <<>>]
            /\ pending' = [pending EXCEPT ![s] =
                 [k \in 1..Len(@) |-> [@[k] EXCEPT !.mounted = FALSE]]]
       ELSE UNCHANGED <<cart, undoStack, pending>>
  /\ UNCHANGED <<store, sales, products, today, balance, history>>

\* StockTab.updateField(code, field, value) on a row of the catalog table
UpdateField(code, field, value, maxVer) ==
  /\ store[code].exists
  /\ store[code].ver < maxVer
  /\ store[code][field] # value
  /\ store' = [store EXCEPT ![code][field] = value, ![code].ver = @ + 1]
  /\ UNCHANGED <<sales, products, cart, undoStack, pending, today, balance, history, tab>>

\* the Firestore rules let any signed-in client delete a product document
DeleteProduct(code) ==
  /\ store[code].exists
  /\ store[code].ver < MaxVer
  /\ store' = [store EXCEPT ![code].exists = FALSE, ![code].ver = @ + 1]
  /\ UNCHANGED <<sales, products, cart, undoStack, pending, today, balance, history, tab>>

\* midnight in Buenos Aires
Tick ==
  /\ today < MaxDay
  /\ today' = today + 1
  /\ UNCHANGED <<store, sales, products, cart, undoStack, pending, balance, history, tab>>

\* ------------------------------------------------------- specifications
\* The catalog StockTab.addProduct has built: two products, and one whose
\* code is "PAN".
InitStore ==
  [c \in Codes |->
     [exists |-> TRUE,
      cost |-> IF c = "B" THEN 3 ELSE 2,
      margin |-> 50,
      stock |-> IF c = "A" THEN MaxStock * One ELSE One,
      ver |-> 0]]

Init ==
  /\ store = InitStore
  /\ sales = <<>>
  /\ products = [s \in Sessions |-> [c \in Codes |-> DocData(InitStore[c])]]
  /\ cart = [s \in Sessions |-> <<>>]
  /\ undoStack = [s \in Sessions |-> <<>>]
  /\ pending = [s \in Sessions |-> <<>>]
  /\ today = 1
  /\ balance = [sales |-> <<>>, grouped |-> <<>>]
  /\ history = [s \in Sessions |-> <<>>]
  /\ tab = [s \in Sessions |-> "pos"]

\* what the scan field holds when Enter is pressed
Scans == {"A", " A", "B", "PAN", "X", " "}

\* the checkout of session s
Checkout(s, maxLines, maxSales) ==
  \/ Cobrar(s, maxLines, maxSales)
  \/ \E k \in 1..MaxPending, i \in 1..maxLines : TxGet(s, k, i)
  \/ \E k \in 1..MaxPending : TxCommit(s, k)
  \/ \E k \in 1..MaxPending : CobrarDone(s, k)

\* Two sessions scan products A and B and check out while the catalog is
\* edited.
Next ==
  \/ \E s \in Sessions, scan \in Scans \ {"PAN"} :
       Idle(s) /\ OnScanEnter(s, scan, MaxLines, MaxUndo)
  \/ \E s \in Sessions : Idle(s) /\ CancelAll(s)
  \/ \E s \in Sessions : Checkout(s, MaxLines, MaxSales)
  \/ \E s \in Sessions : ProductsSnapshot(s)
  \/ \E value \in 0..MaxStock : UpdateField("A", "stock", value * One, MaxVer)
  \/ DeleteProduct("B")

Spec == Init /\ [][Next]_vars

\* Two sessions scan every product, add bread and check out; nothing edits the
\* catalog.
NextNoEdit ==
  \/ \E s \in Sessions, scan \in Scans : Idle(s) /\ OnScanEnter(s, scan, MaxLines, MaxUndo)
  \/ Idle("s1") /\ PanConfirmar("s1", "precio", 4, 0, MaxLines)
  \/ \E s \in Sessions : Idle(s) /\ CancelAll(s)
  \/ \E s \in Sessions : Checkout(s, MaxLines, MaxSales)

SpecNoEdit == Init /\ [][NextNoEdit]_vars


\* what the quantity input holds: "-1", "" or "0", "1", "1.5" (with One = 2), ...
QtyValues == {-One, 0, One, One + 1} \cup {q * One : q \in 2..MaxQty}

\* One session with every control of POSTab, the cart edited while a checkout
\* is in flight, and product B deleted under it.
NextCart ==
  \/ \E scan \in Scans : OnScanEnter("s1", scan, MaxLines, MaxUndo)
  \/ \E k \in 1..MaxLines, value \in QtyValues : QtyOnChange("s1", k, value)
  \/ \E k \in 1..MaxLines : RemoveItem("s1", k)
  \/ CancelAll("s1")
  \/ Undo("s1")
  \/ \E value \in {0, 4} : PanConfirmar("s1", "precio", value, 0, MaxLines)
  \/ Checkout("s1", CartMaxCommit, CartMaxSales)
  \/ ProductsSnapshot("s1")
  \/ DeleteProduct("B")

SpecCart == Init /\ [][NextCart]_vars

\* Two sessions each hold q units of one product whose stock is q, and check
\* out.
RaceCart(c, q) ==
  <<[code |-> c, name |-> NameOf(c),
     price |-> calcPrice(InitStore[c].cost, InitStore[c].margin), qty |-> q * One]>>

InitRace ==
  \E c \in Codes, q \in 1..MaxStock :
    /\ store = [InitStore EXCEPT ![c].stock = q * One]
    /\ sales = <<>>
    /\ products = [s \in Sessions |->
                     [d \in Codes |-> DocData([InitStore EXCEPT ![c].stock = q * One][d])]]
    /\ cart = [s \in Sessions |-> RaceCart(c, q)]
    /\ undoStack = [s \in Sessions |-> [i \in 1..q |-> [type |-> "add", code |-> c, qty |-> One]]]
    /\ pending = [s \in Sessions |-> <<>>]
    /\ today = 1
    /\ balance = [sales |-> <<>>, grouped |-> <<>>]
  /\ history = [s \in Sessions |-> <<>>]
  /\ tab = [s \in Sessions |-> "pos"]

NextRace ==
  \/ \E s \in Sessions : Checkout(s, MaxLines, MaxSales)
  \/ \E s \in Sessions : ProductsSnapshot(s)

SpecRace == InitRace /\ [][NextRace]_vars

\* --------------------------------------------------- the balance, alone
\* BalanceTab's sales state holds a list of Sale values; localDate is optional
\* in the Sale type, and cobrar wrote none before it stamped the day.
BalItems ==
  { <<[code |-> "A", name |-> NameOf("A"), qty |-> One, price |-> 3, costAtSale |-> 2]>>,
    <<[code |-> "B", name |-> NameOf("B"), qty |-> One, price |-> 5, costAtSale |-> 3]>>,
    <<[code |-> "PAN", name |-> "Pan", qty |-> One, price |-> 4, costAtSale |-> 0]>> }

BalSales ==
  {[id |-> 0, localDate |-> d, user |-> "s1", items |-> it, total |-> total(it)] :
     d \in {NoDate} \cup (1..MaxDay), it \in BalItems}

BalLists == UNION {[1..n -> BalSales] : n \in 0..MaxSales}

\* the lists that hold the sales of `list` in another order
Reordered(list) ==
  {[i \in 1..Len(list) |-> list[f[i]]] :
     f \in {g \in [1..Len(list) -> 1..Len(list)] :
              \A i, j \in 1..Len(list) : g[i] = g[j] => i = j}}

\* BalanceTab renders with `list` as its sales state: useMemo computes grouped
BalanceRender(list) ==
  /\ balance' = [sales |-> list, grouped |-> grouped(list, today)]
  /\ UNCHANGED <<store, sales, products, cart, undoStack, pending, today, history, tab>>

InitBal ==
  /\ store = InitStore
  /\ sales = <<>>
  /\ products = [s \in Sessions |-> [c \in Codes |-> DocData(InitStore[c])]]
  /\ cart = [s \in Sessions |-> <<>>]
  /\ undoStack = [s \in Sessions |-> <<>>]
  /\ pending = [s \in Sessions |-> <<>>]
  /\ today = 1
  /\ \E list \in BalLists : balance = [sales |-> list, grouped |-> grouped(list, today)]
  /\ history = [s \in Sessions |-> <<>>]
  /\ tab = [s \in Sessions |-> "pos"]

\* The tab is mounted again with the same sales, in any order, on any day.
NextBal ==
  \/ \E list \in Reordered(balance.sales) : BalanceRender(list)
  \/ Tick

SpecBal == InitBal /\ [][NextBal]_vars

\* ------------------------------------------- the ledger and the catalog
\* how far the edits of one product go on after the sales have touched it
LedgerMaxVer == MaxVer + MaxSales

\* what the cost and the margin inputs of a catalog row are set to
CostValues == {2, 3}

MarginValues == {50, 100}

\* getDocs(query(collection(db, "sales"), orderBy("localDate", "desc"))): the
\* documents that hold a localDate, the later day first
byLocalDateDesc(ledger) ==
  {list \in Reordered(SelectSeq(ledger, LAMBDA sale : sale.localDate # NoDate)) :
     \A i, j \in 1..Len(list) : i < j => list[i].localDate >= list[j].localDate}

\* BalanceTab is mounted: its effect loads the sales and it renders them
BalanceMount == \E list \in byLocalDateDesc(sales) : BalanceRender(list)

\* One session sells products A and B and bread while StockTab edits the cost
\* and the margin of A and BalanceTab is opened, over more than one day.
NextLedger ==
  \/ \E scan \in {"A", "B"} : Idle("s1") /\ OnScanEnter("s1", scan, MaxLines, MaxUndo)
  \/ Idle("s1") /\ PanConfirmar("s1", "precio", 4, 0, MaxLines)
  \/ Checkout("s1", CartMaxCommit, MaxSales)
  \/ ProductsSnapshot("s1")
  \/ \E v \in CostValues : UpdateField("A", "cost", v, LedgerMaxVer)
  \/ \E v \in MarginValues : UpdateField("A", "margin", v, LedgerMaxVer)
  \/ BalanceMount
  \/ Tick

SpecLedger == Init /\ [][NextLedger]_vars

\* ------------------------------------------------- the views of the App
\* POSTab is on screen
OnPos(s) == tab[s] = "pos"

\* One session uses every control of POSTab while it is on screen, checks
\* out, and goes to other tabs and back, while the listeners of App deliver
\* the catalog and the ledger.
NextTabs ==
  \/ \E scan \in Scans \ {"PAN"} : OnPos("s1") /\ OnScanEnter("s1", scan, MaxLines, MaxUndo)
  \/ \E k \in 1..MaxLines, value \in QtyValues : OnPos("s1") /\ QtyOnChange("s1", k, value)
  \/ \E k \in 1..MaxLines : OnPos("s1") /\ RemoveItem("s1", k)
  \/ OnPos("s1") /\ CancelAll("s1")
  \/ OnPos("s1") /\ Undo("s1")
  \/ OnPos("s1") /\ PanConfirmar("s1", "precio", 4, 0, MaxLines)
  \/ OnPos("s1") /\ Cobrar("s1", CartMaxCommit, CartMaxSales)
  \/ \E k \in 1..MaxPending, i \in 1..CartMaxCommit : TxGet("s1", k, i)
  \/ \E k \in 1..MaxPending : TxCommit("s1", k)
  \/ \E k \in 1..MaxPending : CobrarDone("s1", k)
  \/ \E t \in Tabs : SelectTab("s1", t)
  \/ ProductsSnapshot("s1")
  \/ SalesSnapshot("s1")

SpecTabs == Init /\ [][NextTabs]_vars

\* --------------------------------------------------- the retries, alone
\* how far the edits of product A go on: enough to abort every attempt
RetryMaxVer == MaxAttempts + MaxVer

\* Session s1 has scanned product A once.
InitRetry ==
  /\ store = InitStore
  /\ sales = <<>>
  /\ products = [s \in Sessions |-> [c \in Codes |-> DocData(InitStore[c])]]
  /\ cart = [s \in Sessions |-> IF s = "s1" THEN RaceCart("A", 1) ELSE <<>>]
  /\ undoStack = [s \in Sessions |->
                    IF s = "s1" THEN <<[type |-> "add", code |-> "A", qty |-> One]>> ELSE <<>>]
  /\ pending = [s \in Sessions |-> <<>>]
  /\ today = 1
  /\ balance = [sales |-> <<>>, grouped |-> <<>>]
  /\ history = [s \in Sessions |-> <<>>]
  /\ tab = [s \in Sessions |-> "pos"]

\* It checks out while StockTab edits the stock of A again and again, or
\* the product is deleted.
NextRetry ==
  \/ Checkout("s1", MaxLines, MaxSales)
  \/ \E value \in 0..MaxStock : UpdateField("A", "stock", value * One, RetryMaxVer)
  \/ DeleteProduct("A")

\* runTransaction goes on until it resolves or rejects, and cobrar resumes
\* after its await.
FairRetry ==
  /\ \A k \in 1..MaxPending, i \in 1..MaxLines : WF_vars(TxGet("s1", k, i))
  /\ \A k \in 1..MaxPending : WF_vars(TxCommit("s1", k))
  /\ \A k \in 1..MaxPending : WF_vars(CobrarDone("s1", k))

SpecRetry == InitRetry /\ [][NextRetry]_vars /\ FairRetry

\* ------------------------------------------- bread and the product PAN
\* One session adds bread by price and scans products A and PAN while
\* StockTab sets the stock of the product whose code is "PAN".
NextPan ==
  \/ \E scan \in {"A", "PAN", "X"} : OnScanEnter("s1", scan, MaxLines, MaxUndo)
  \/ PanConfirmar("s1", "precio", 4, 0, MaxLines)
  \/ \E k \in 1..MaxLines : RemoveItem("s1", k)
  \/ Undo("s1")
  \/ \E value \in 0..MaxStock : UpdateField("PAN", "stock", value * One, MaxVer)
  \/ ProductsSnapshot("s1")

SpecPan == Init /\ [][NextPan]_vars

\* ------------------------------------------ Cobrar pressed more than once
\* One session scans A and B, and presses Cobrar again while the calls of
\* cobrar it has made are in flight.
NextClicks ==
  \/ \E scan \in {"A", "B"} : Idle("s1") /\ OnScanEnter("s1", scan, MaxLines, MaxUndo)
  \/ CobrarClick("s1", MaxLines, MaxSales, MaxClicks)
  \/ \E k \in 1..MaxClicks, i \in 1..MaxLines : TxGet("s1", k, i)
  \/ \E k \in 1..MaxClicks : TxCommit("s1", k)
  \/ \E k \in 1..MaxClicks : CobrarDone("s1", k)
  \/ ProductsSnapshot("s1")

SpecClicks == Init /\ [][NextClicks]_vars

\* ------------------------------------ the cart against a catalog at rest
\* One session uses every control of the cart and checks out once; nothing
\* edits the catalog and no snapshot arrives, so that until the commit the
\* snapshot is the persisted catalog.
NextQty ==
  \/ \E scan \in Scans : OnScanEnter("s1", scan, MaxLines, MaxUndo)
  \/ \E k \in 1..MaxLines, value \in QtyValues : QtyOnChange("s1", k, value)
  \/ \E k \in 1..MaxLines : RemoveItem("s1", k)
  \/ CancelAll("s1")
  \/ Undo("s1")
  \/ PanConfirmar("s1", "precio", 4, 0, MaxLines)
  \/ Checkout("s1", MaxLines, CartMaxSales)

SpecQty == Init /\ [][NextQty]_vars

\* ------------------------------------------------------------- claims
\* C1: when a commit succeeds, the Sale appended has total = the sum of
\* price x qty over the cart the commit was invoked with, and every line that
\* addByCode made from a product leaves that product's stock, in the same
\* step, at the stock of the commit minus the line's quantity (the stock the
\* transaction read, when it read one).
C1_CommitTotalAndStock ==
  [][\A s \in Sessions : \A k \in 1..Len(pending[s]) :
       (/\ Len(pending'[s]) = Len(pending[s])
        /\ pending[s][k].pc = "run" /\ pending'[s][k].pc = "ok")
       => LET p == pending[s][k]
          IN /\ Len(sales') = Len(sales) + 1
             /\ SubSeq(sales', 1, Len(sales)) = sales
             /\ sales'[Len(sales')].total = total(p.cart)
             /\ \A i \in 1..Len(p.cart) :
                  ~addedByPanModal(p.cart[i]) =>
                    /\ store'[p.cart[i].code].stock
                         = store[p.cart[i].code].stock - p.cart[i].qty
                    /\ p.snaps[i] # NullSnap =>
                         store'[p.cart[i].code].stock = p.snaps[i].stock - p.cart[i].qty
    ]_vars

\* C2: two sessions hold q units each of one product whose stock is q: at most
\* one Sale is ever appended, a commit that has succeeded has left the stock
\* at 0, and a commit that has failed has failed with "Stock insuficiente"
\* after the other one's Sale was appended.
C2_ExactlyOneCommitSucceeds ==
  /\ Len(sales) <= 1
  /\ \A s \in Sessions : \A k \in 1..Len(pending[s]) :
       pending[s][k].pc # "run"
       => /\ Len(sales) = 1
          /\ store[pending[s][k].cart[1].code].stock = 0
          /\ pending[s][k].pc = "failed" => pending[s][k].err = "Stock insuficiente"

\* C3: the persisted stock of every product is >= 0 in every reachable state,
\* whatever the interleaving of checkouts, retries and catalog edits.
C3_StockNeverNegative == \A c \in Codes : store[c].stock >= 0

\* C3 witness: a checkout that lost a conflict runs again while the product it
\* wants is sold out
C3_Witness ==
  \E s \in Sessions :
    /\ pending[s] # <<>>
    /\ pending[s][1].attempt > 1
    /\ \E i \in 1..Len(pending[s][1].cart) :
         /\ pending[s][1].cart[i].code = "A"
         /\ store["A"].stock = 0
         /\ Len(sales) >= 1

\* C4: with no catalog edit, for every product the amount by which its stock
\* is below its initial stock equals the total quantity, over all Sales of
\* the ledger, of the items addByCode made from that product.
C4_StockDeficitEqualsSold ==
  \A c \in Codes :
    LET sold(items) ==
          LET f[n \in 0..Len(items)] ==
                IF n = 0 THEN 0
                ELSE f[n - 1] + (IF items[n].code = c /\ ~addedByPanModal(items[n])
                                   THEN items[n].qty ELSE 0)
          IN f[Len(items)]
        ledger[n \in 0..Len(sales)] ==
          IF n = 0 THEN 0 ELSE ledger[n - 1] + sold(sales[n].items)
    IN InitStore[c].stock - store[c].stock = ledger[Len(sales)]

\* C5: a commit that fails writes nothing: cobrar on an empty cart starts no
\* transaction, and the step in which a transaction fails (a product missing,
\* the stock read below the quantity asked, or the attempts exhausted) leaves
\* every product document and the ledger as they were.
C5_FailedCommitWritesNothing ==
  /\ [](\A s \in Sessions :
          cart[s] = <<>> => cobrar(pending[s], cart[s]).pending = pending[s])
  /\ [][\A s \in Sessions : \A k \in 1..Len(pending[s]) :
          (/\ Len(pending'[s]) = Len(pending[s])
           /\ pending[s][k].pc = "run" /\ pending'[s][k].pc = "failed")
          => (store' = store /\ sales' = sales)
       ]_vars

\* C5 witness: one session's commit has failed on a deleted product and the
\* other's on a stock its catalog snapshot still showed as enough
C5_Witness ==
  /\ pending["s1"] # <<>> /\ pending["s2"] # <<>>
  /\ pending["s1"][1].pc = "failed" /\ pending["s1"][1].err = "Producto no encontrado"
  /\ pending["s2"][1].pc = "failed" /\ pending["s2"][1].err = "Stock insuficiente"
  /\ \E i \in 1..Len(cart["s2"]) :
       /\ cart["s2"][i].code = "A"
       /\ products["s2"]["A"].stock >= cart["s2"][i].qty
       /\ store["A"].stock < cart["s2"][i].qty

\* C6: a failed commit leaves the cart and the undo stack as they were when
\* cobrar was invoked: from the invocation to the return of the failure, no
\* step of a commit (the invocation, a read, the validation, a retry, the
\* catch) changes the session's cart or undo stack; only the return of a
\* successful commit does.
C6_FailedCommitKeepsCart ==
  [][\A s \in Sessions :
       (/\ pending'[s] # pending[s]
        /\ ~\E k \in 1..Len(pending[s]) :
              pending[s][k].pc = "ok" /\ pending'[s] = RemoveAt(pending[s], k))
       => (cart'[s] = cart[s] /\ undoStack'[s] = undoStack[s])
    ]_vars

\* C6 witness: a commit of two scanned lines has failed and is about to return
C6_Witness ==
  \E s \in Sessions :
    /\ pending[s] # <<>>
    /\ pending[s][1].pc = "failed"
    /\ Len(cart[s]) = 2
    /\ Len(undoStack[s]) = 2

C8_QuantityAtLeastOne ==
  \A s \in Sessions : \A i \in 1..Len(cart[s]) : cart[s][i].qty >= One

\* C9: a local pre-check failure leaves the cart and the undo stack unchanged:
\* addByCode with a code the catalog snapshot lacks, addByCode when the
\* quantity of the product already in the cart plus the quantity added
\* exceeds the snapshot stock, and a quantity typed above the snapshot stock
\* on a line addByCode made from a product.
C9_PreCheckFailureKeepsCart ==
  \A s \in Sessions :
    LET lines == cart[s]
        stack == undoStack[s]
        prods == products[s]
        inCart(code) ==
          LET f[n \in 0..Len(lines)] ==
                IF n = 0 THEN 0
                ELSE f[n - 1] + (IF lines[n].code = code /\ ~addedByPanModal(lines[n])
                                   THEN lines[n].qty ELSE 0)
          IN f[Len(lines)]
    IN /\ \A scan \in Scans :
            LET code == Trim(scan)
                prod == productsMap(prods, code)
                r == addByCode(lines, stack, prods, code, One)
            IN (code # "" /\ (~prod.exists \/ inCart(code) + One > prod.stock))
               => (r.cart = lines /\ r.undoStack = stack)
       /\ \A k \in 1..Len(lines), value \in QtyValues :
            LET prod == productsMap(prods, lines[k].code)
                r == qtyOnChange(lines, stack, prods, k, value)
            IN (~addedByPanModal(lines[k]) /\ prod.exists /\ value > prod.stock)
               => (r.cart = lines /\ r.undoStack = stack)

C11_CostAtSaleIsCostRead ==
  [][\A s \in Sessions : \A k \in 1..Len(pending[s]) :
       (/\ Len(pending'[s]) = Len(pending[s])
        /\ pending[s][k].pc = "run" /\ pending'[s][k].pc = "ok")
       => LET p == pending[s][k]
              sale == sales'[Len(sales')]
          IN \A i \in 1..Len(p.cart) :
               IF addedByPanModal(p.cart[i])
                 THEN sale.items[i].costAtSale = 0
                 ELSE /\ sale.items[i].costAtSale = store[p.cart[i].code].cost
                      /\ p.snaps[i] # NullSnap => sale.items[i].costAtSale = p.snaps[i].cost
    ]_vars

\* the row BalanceTab shows for day d, or no row
BalanceRow(rows, d) ==
  IF \E i \in 1..Len(rows) : rows[i].date = d
    THEN rows[CHOOSE i \in 1..Len(rows) : rows[i].date = d]
    ELSE [date |-> d, cost |-> 0, profit |-> 0, total |-> 0]

\* the Sales of day d in a list
SalesOfDay(list, d) == {list[i] : i \in {j \in 1..Len(list) : list[j].localDate = d}}

\* C12: a step that changes the cost or the margin of a product leaves every
\* Sale of the ledger as it is; and whenever BalanceTab is mounted again, the
\* {cost, profit, total} it shows for a day whose Sales are the ones it held
\* before are the ones it showed before, whatever was edited in between.
C12_CostEditKeepsSalesAndBalance ==
  [][/\ (\E c \in Codes : \/ store'[c].cost # store[c].cost
                          \/ store'[c].margin # store[c].margin)
          => /\ Len(sales') >= Len(sales)
             /\ \A i \in 1..Len(sales) : sales'[i] = sales[i]
     /\ \A d \in 1..MaxDay :
          (/\ SalesOfDay(balance.sales, d) # {}
           /\ SalesOfDay(balance'.sales, d) = SalesOfDay(balance.sales, d))
          => BalanceRow(balance'.grouped, d) = BalanceRow(balance.grouped, d)
    ]_vars

\* C12 witness: BalanceTab shows a Sale of a product whose cost in the
\* catalog is no longer the cost the item carries.
C12_Witness ==
  /\ balance.grouped # <<>>
  /\ \E i \in 1..Len(balance.sales) : \E j \in 1..Len(balance.sales[i].items) :
       /\ ~addedByPanModal(balance.sales[i].items[j])
       /\ store[balance.sales[i].items[j].code].cost # balance.sales[i].items[j].costAtSale

\* C13: when a cobrar whose commit succeeded returns, the cart of its session
\* has no lines and the undo stack is empty.
C13_SuccessLeavesCartAndUndoEmpty ==
  [][\A s \in Sessions : \A k \in 1..Len(pending[s]) :
       (/\ pending[s][k].pc = "ok"
        /\ pending'[s] = RemoveAt(pending[s], k))
       => (cart'[s] = <<>> /\ undoStack'[s] = <<>>)
    ]_vars

\* C14: an attempt number never exceeds the limit of runTransaction; a failed
\* commit carries a message; an attempt is abandoned for a new one only on a
\* conflict, never on a failed validation, and the new one starts with nothing
\* read; when the last attempt conflicts the commit fails with a message; a
\* commit that has succeeded or failed stays so; and every call of cobrar in
\* flight returns.
C14_CommitTerminatesWithOutcome ==
  /\ [](\A s \in Sessions : \A k \in 1..Len(pending[s]) :
          /\ pending[s][k].attempt <= MaxAttempts
          /\ pending[s][k].pc = "failed" => pending[s][k].err # "")
  /\ [][\A s \in Sessions : \A k \in 1..Len(pending[s]) :
          (Len(pending'[s]) = Len(pending[s]) /\ pending[s][k].pc # "run")
          => pending'[s][k] = pending[s][k]
       ]_vars
  /\ [][\A s \in Sessions : \A k \in 1..Len(pending[s]) :
          (Len(pending'[s]) = Len(pending[s]) /\ pending[s][k].pc = "run")
          => LET p == pending[s][k]
                 q == pending'[s][k]
                 reads == \A i \in 1..Len(p.cart) : p.snaps[i].read
             IN /\ q.attempt \in {p.attempt, p.attempt + 1}
                /\ q.pc \in {"run", "ok", "failed"}
                /\ q.attempt = p.attempt + 1
                     => /\ reads /\ FirstInvalid(p.cart, p.snaps) = 0 /\ Conflict(p.cart, p.snaps)
                        /\ q.pc = "run" /\ q.snaps = FreshSnaps(p.cart)
                        /\ store' = store /\ sales' = sales
                /\ (reads /\ FirstInvalid(p.cart, p.snaps) # 0 /\ q # p)
                     => q.pc = "failed" /\ q.attempt = p.attempt
                /\ (reads /\ FirstInvalid(p.cart, p.snaps) = 0 /\ Conflict(p.cart, p.snaps)
                      /\ p.attempt = MaxAttempts /\ q # p)
                     => q.pc = "failed" /\ q.err = "aborted"
       ]_vars
  /\ \A s \in Sessions : \A n \in 1..MaxPending :
       (\E k \in 1..Len(pending[s]) : pending[s][k].call = n)
         ~> ~(\E k \in 1..Len(pending[s]) : pending[s][k].call = n)

\* C14 witness: the last attempt of a commit was aborted by a conflict and
\* the commit has failed.
C14_Witness ==
  \E s \in Sessions : \E k \in 1..Len(pending[s]) :
    /\ pending[s][k].pc = "failed"
    /\ pending[s][k].err = "aborted"
    /\ pending[s][k].attempt = MaxAttempts

\* C15: every step leaves every Sale of the ledger in its place as it is; the
\* ledger grows by exactly one Sale in a step in which a commit succeeds and
\* by none in any other step, a failing commit included.
C15_LedgerAppendOnly ==
  [][/\ Len(sales') >= Len(sales)
     /\ \A i \in 1..Len(sales) : sales'[i] = sales[i]
     /\ LET succeeded == {<<s, k>> \in Sessions \X (1..MaxPending) :
                            /\ k <= Len(pending[s]) /\ Len(pending'[s]) = Len(pending[s])
                            /\ pending[s][k].pc = "run" /\ pending'[s][k].pc = "ok"}
        IN Len(sales') = Len(sales) + Cardinality(succeeded)
    ]_vars

\* C15 witness: a commit has failed with a Sale already in the ledger.
C15_Witness ==
  /\ Len(sales) >= 1
  /\ \E s \in Sessions : \E k \in 1..Len(pending[s]) : pending[s][k].pc = "failed"

\* C16: the Sale cobrar hands to onSaleRecorded after a successful commit has
\* the id of the document the commit wrote, and the same items (costAtSale
\* included), total, user and localDate as that document.
C16_LocalEchoIsCommittedSale ==
  [][\A s \in Sessions : \A k \in 1..Len(pending[s]) :
       (/\ pending[s][k].pc = "ok"
        /\ pending'[s] = RemoveAt(pending[s], k)
        /\ Len(history'[s]) = Len(history[s]) + 1)
       => LET echo == history'[s][1]
              saved == sales[pending[s][k].saleId]
          IN /\ echo.id = saved.id
             /\ echo.items = saved.items
             /\ echo.total = saved.total
             /\ echo.user = saved.user
             /\ echo.localDate = saved.localDate
    ]_vars

\* C17: in a commit that succeeds, a line of the cart was left unread and
\* leaves every stock alone exactly when PanModal added it; every line
\* addByCode made was read, found with stock enough for its quantity, and has
\* its quantity taken off the stock of its product.
C17_ExemptIffUntracked ==
  [][\A s \in Sessions : \A k \in 1..Len(pending[s]) :
       (/\ Len(pending'[s]) = Len(pending[s])
        /\ pending[s][k].pc = "run" /\ pending'[s][k].pc = "ok")
       => LET p == pending[s][k]
          IN \A i \in 1..Len(p.cart) :
               IF addedByPanModal(p.cart[i])
                 THEN p.snaps[i] = NullSnap
                 ELSE /\ p.snaps[i] # NullSnap
                      /\ p.snaps[i].exists
                      /\ p.snaps[i].stock >= p.cart[i].qty
                      /\ store'[p.cart[i].code].stock
                           = store[p.cart[i].code].stock - p.cart[i].qty
    ]_vars

\* what the five operations of the cart can make of the cart and undo stack
\* of session s
OperationResults(s) ==
  {onScanEnter(cart[s], undoStack[s], products[s], scan) : scan \in Scans}
    \cup {qtyOnChange(cart[s], undoStack[s], products[s], k, value) :
            k \in 1..Len(cart[s]), value \in QtyValues}
    \cup {removeItem(cart[s], undoStack[s], cart[s][k].code) : k \in 1..Len(cart[s])}
    \cup {undo(cart[s], undoStack[s])}
    \cup {panConfirmar(cart[s], undoStack[s], "precio", value, 0) : value \in {0, 4}}

\* C18: selecting a tab leaves the cart and the undo stack of the session as
\* they are; and a step that changes either is one of addByCode, PanModal's
\* add, the quantity input, Eliminar or undo, or the return of a successful
\* commit, or the cancel button.
C18_CartChangesOnlyThroughOperations ==
  [][\A s \in Sessions :
       /\ tab'[s] # tab[s] => (cart'[s] = cart[s] /\ undoStack'[s] = undoStack[s])
       /\ (cart'[s] # cart[s] \/ undoStack'[s] # undoStack[s])
            => \/ \E r \in OperationResults(s) :
                    cart'[s] = r.cart /\ undoStack'[s] = r.undoStack
               \/ cart'[s] = cancelAll(cart[s], undoStack[s]).cart
                    /\ undoStack'[s] = cancelAll(cart[s], undoStack[s]).undoStack
               \/ \E k \in 1..Len(pending[s]) :
                    pending[s][k].pc = "ok" /\ pending'[s] = RemoveAt(pending[s], k)
    ]_vars

\* the code, name, qty and price of the items or lines of a list
LinesOf(items) ==
  [i \in 1..Len(items) |->
     [code |-> items[i].code, name |-> items[i].name, qty |-> items[i].qty,
      price |-> items[i].price]]

\* C19: an invocation of cobrar holds the lines and total of the cart it was
\* invoked on; no step changes them while it is in flight; a step that
\* changes the cart, the cancel button included, leaves every invocation in
\* flight as it is, unless it is the return of one; an invocation leaves only
\* when it has succeeded or failed; and the Sale a successful one writes has
\* exactly the lines the cart held at the invocation, and their total.
C19_InFlightCommitUnaffectedByCartEdits ==
  [][\A s \in Sessions :
       /\ Len(pending'[s]) = Len(pending[s]) + 1
            => /\ pending'[s][Len(pending'[s])].cart = cart[s]
               /\ pending'[s][Len(pending'[s])].total = total(cart[s])
               /\ SubSeq(pending'[s], 1, Len(pending[s])) = pending[s]
       /\ Len(pending'[s]) = Len(pending[s])
            => \A k \in 1..Len(pending[s]) :
                 /\ pending'[s][k].cart = pending[s][k].cart
                 /\ pending'[s][k].total = pending[s][k].total
                 /\ (pending[s][k].pc = "run" /\ pending'[s][k].pc = "ok")
                      => /\ LinesOf(sales'[Len(sales')].items) = LinesOf(pending[s][k].cart)
                         /\ sales'[Len(sales')].total = total(pending[s][k].cart)
       /\ Len(pending'[s]) < Len(pending[s])
            => \E k \in 1..Len(pending[s]) :
                 /\ pending[s][k].pc \in {"ok", "failed"}
                 /\ pending'[s] = RemoveAt(pending[s], k)
       /\ (cart'[s] # cart[s] /\ Len(pending'[s]) = Len(pending[s]))
            => pending'[s] = pending[s]
    ]_vars

\* C19 witness: a commit has succeeded and is about to return, after the
\* cart it was invoked on was cancelled and another line scanned.
C19_Witness ==
  \E s \in Sessions : \E k \in 1..Len(pending[s]) :
    /\ pending[s][k].pc = "ok"
    /\ cart[s] # <<>>
    /\ \A i \in 1..Len(cart[s]) : \A j \in 1..Len(pending[s][k].cart) :
         cart[s][i].code # pending[s][k].cart[j].code

\* the quantity a cart holds of the product `code`: that of its lines made
\* from the product
RECURSIVE QtyFor(_, _)
QtyFor(lines, code) ==
  IF lines = <<>> THEN 0
  ELSE (IF Head(lines).code = code /\ ~addedByPanModal(Head(lines)) THEN Head(lines).qty ELSE 0)
         + QtyFor(Tail(lines), code)

\* C20: in every reachable cart state, for every code the scan field passes
\* to addByCode and every quantity, when addByCode succeeds the quantity the
\* cart holds of the product has grown by qty: added in place to the line of
\* the product when there is one, else in a new first line, every other line
\* as it was; and the undo stack has one more entry on top, {add, code, qty}.
C20_AddByCodeAddsExactlyQty ==
  \A s \in Sessions, scan \in Scans, qty \in 1..(MaxQty * One) :
    LET code == Trim(scan)
        r == addByCode(cart[s], undoStack[s], products[s], code, qty)
        mine == {i \in 1..Len(cart[s]) :
                   cart[s][i].code = code /\ ~addedByPanModal(cart[s][i])}
    IN (code # "" /\ r.toast = "")
       => /\ QtyFor(r.cart, code) = QtyFor(cart[s], code) + qty
          /\ IF mine # {}
               THEN \E i \in mine : r.cart = [cart[s] EXCEPT ![i].qty = @ + qty]
               ELSE /\ Len(r.cart) = Len(cart[s]) + 1
                    /\ r.cart[1].code = code /\ r.cart[1].qty = qty
                    /\ ~addedByPanModal(r.cart[1])
                    /\ Tail(r.cart) = cart[s]
          /\ r.undoStack = Prepend([type |-> "add", code |-> code, qty |-> qty], undoStack[s])

\* C21: in every reachable cart state, undo with an empty stack gives back the
\* cart and the stack as they are; with entries on the stack it gives the
\* stack without its top entry and, of the cart, takes the entry's quantity
\* off the line made from the entry's product, that line removed when what is
\* left is not above zero, every other line as it was.
C21_UndoPopsAndDecrementsMatchingLine ==
  \A s \in Sessions :
    LET r == undo(cart[s], undoStack[s])
    IN IF undoStack[s] = <<>>
         THEN r.cart = cart[s] /\ r.undoStack = undoStack[s]
         ELSE LET last == Head(undoStack[s])
                  mine == {i \in 1..Len(cart[s]) :
                             cart[s][i].code = last.code /\ ~addedByPanModal(cart[s][i])}
              IN /\ r.undoStack = Tail(undoStack[s])
                 /\ mine = {} => r.cart = cart[s]
                 /\ \A i \in mine :
                      r.cart = IF cart[s][i].qty - last.qty <= 0
                                 THEN RemoveAt(cart[s], i)
                                 ELSE [cart[s] EXCEPT ![i].qty = @ - last.qty]

\* C22: in every reachable cart state, for every row k and every value of the
\* quantity input, the change sets the quantity of line k to the larger of 1
\* and the value and leaves the other lines and the undo stack as they are;
\* except that for a line made from a product, when that quantity is above
\* the product's stock in the catalog snapshot, it reports "Stock
\* insuficiente" and changes nothing. For a PanModal line it always succeeds.
C22_ChangeQuantityClampsAndChecksStock ==
  \A s \in Sessions : \A k \in 1..Len(cart[s]) : \A value \in QtyValues :
    LET r == qtyOnChange(cart[s], undoStack[s], products[s], k, value)
        q == Max(One, value)
        prod == products[s][cart[s][k].code]
    IN IF ~addedByPanModal(cart[s][k]) /\ prod.exists /\ q > prod.stock
         THEN /\ r.toast = "Stock insuficiente"
              /\ r.cart = cart[s] /\ r.undoStack = undoStack[s]
         ELSE /\ r.toast = ""
              /\ r.cart = [cart[s] EXCEPT ![k].qty = q]
              /\ r.undoStack = undoStack[s]

\* C23: in every reachable cart state, for every row k, Eliminar on row k
\* gives the cart without line k: the other lines, their quantities and
\* their order as they were.
C23_RemoveLineRemovesExactlyThatLine ==
  \A s \in Sessions : \A k \in 1..Len(cart[s]) :
    removeItem(cart[s], undoStack[s], cart[s][k].code).cart = RemoveAt(cart[s], k)

\* C24: in every reachable cart state, for every price PanModal hands to
\* onAdd, the add puts one new PanModal line of quantity 1 and that price in
\* the cart, the lines already there and the undo stack as they were, and an
\* undo right after it leaves the new line in the cart as it is.
C24_AddUntrackedKeepsLinesAndUndo ==
  \A s \in Sessions : \A price \in {1, 4} :
    LET r == panConfirmar(cart[s], undoStack[s], "precio", price, 0)
        u == undo(r.cart, r.undoStack)
    IN /\ r.toast = ""
       /\ Len(r.cart) = Len(cart[s]) + 1
       /\ addedByPanModal(r.cart[1]) /\ r.cart[1].qty = One /\ r.cart[1].price = price
       /\ Tail(r.cart) = cart[s]
       /\ r.undoStack = undoStack[s]
       /\ u.cart # <<>> /\ u.cart[1] = r.cart[1]

\* the sum of price x qty, and of costAtSale x qty, over the items of the
\* Sales of `list` whose localDate is d
RECURSIVE ItemsRevenue(_)
ItemsRevenue(items) ==
  IF items = <<>> THEN 0
  ELSE Head(items).price * Head(items).qty + ItemsRevenue(Tail(items))

RECURSIVE ItemsCost(_)
ItemsCost(items) ==
  IF items = <<>> THEN 0
  ELSE Head(items).costAtSale * Head(items).qty + ItemsCost(Tail(items))

RECURSIVE DayRevenue(_, _)
DayRevenue(list, d) ==
  IF list = <<>> THEN 0
  ELSE (IF Head(list).localDate = d THEN ItemsRevenue(Head(list).items) ELSE 0)
         + DayRevenue(Tail(list), d)

RECURSIVE DayCost(_, _)
DayCost(list, d) ==
  IF list = <<>> THEN 0
  ELSE (IF Head(list).localDate = d THEN ItemsCost(Head(list).items) ELSE 0)
         + DayCost(Tail(list), d)

C26_OneCartAtMostOneSale ==
  \A s \in Sessions : \A j, k \in 1..Len(pending[s]) :
    (/\ j # k
     /\ pending[s][j].cart = pending[s][k].cart
     /\ pending[s][j].pc = "ok")
    => pending[s][k].pc # "ok"

\* C27: when a cobrar whose commit succeeded returns and clears the cart,
\* every line the clear removes is a line of the cart the commit was invoked
\* on, with no more quantity than it had there.
C27_ClearDiscardsOnlyWhatWasSold ==
  [][\A s \in Sessions : \A k \in 1..Len(pending[s]) :
       (/\ pending[s][k].pc = "ok"
        /\ pending'[s] = RemoveAt(pending[s], k)
        /\ cart'[s] = <<>>)
       => \A i \in 1..Len(cart[s]) :
            \E j \in 1..Len(pending[s][k].cart) :
              /\ pending[s][k].cart[j].code = cart[s][i].code
              /\ pending[s][k].cart[j].name = cart[s][i].name
              /\ pending[s][k].cart[j].qty >= cart[s][i].qty
    ]_vars

\* C28: in every reachable state the cart of a session has at most one line
\* made from each product, and so has the cart a call of cobrar holds; and a
\* commit that succeeds takes from the stock of every product exactly the
\* quantity that cart holds of the product, in one write.
C28_OneLinePerProductOneDecrement ==
  /\ [](\A s \in Sessions : \A i, j \in 1..Len(cart[s]) :
          (/\ cart[s][i].code = cart[s][j].code
           /\ ~addedByPanModal(cart[s][i]) /\ ~addedByPanModal(cart[s][j]))
          => i = j)
  /\ [][\A s \in Sessions : \A k \in 1..Len(pending[s]) :
          (/\ Len(pending'[s]) = Len(pending[s])
           /\ pending[s][k].pc = "run" /\ pending'[s][k].pc = "ok")
          => \A c \in Codes :
               /\ store[c].stock - store'[c].stock = QtyFor(pending[s][k].cart, c)
               /\ store'[c].ver - store[c].ver
                    = IF QtyFor(pending[s][k].cart, c) > 0 THEN 1 ELSE 0
       ]_vars

\* C29: with the catalog snapshot left as it is, after any sequence of adds,
\* quantity changes, removals, undos and cancels every line made from a
\* product has a quantity that is at most the stock of the product in the
\* snapshot; and so, the persisted stock being that of the snapshot, no commit
\* of such a cart fails with "Stock insuficiente".
C29_QuantityWithinSnapshotStock ==
  /\ \A s \in Sessions : \A i \in 1..Len(cart[s]) :
       (~addedByPanModal(cart[s][i]) /\ products[s][cart[s][i].code].exists)
         => cart[s][i].qty <= products[s][cart[s][i].code].stock
  /\ \A s \in Sessions : \A k \in 1..Len(pending[s]) :
       (\A c \in Codes : DocData(store[c]) = products[s][c])
         => pending[s][k].err # "Stock insuficiente"

\* C30: the price of a line made from a product is set when the line is
\* created, to calcPrice of the cost and margin the snapshot holds for the
\* product at that step; while the line stays in the cart no step changes it,
\* a merge, a new snapshot and the commit included; an invocation of cobrar
\* holds the prices of the cart it was invoked on, and the Sale a successful
\* one writes records those prices, line by line.
C30_LinePriceFixedAtCreation ==
  [][\A s \in Sessions :
       /\ \A i \in 1..Len(cart'[s]) :
            ~addedByPanModal(cart'[s][i]) =>
              LET line == cart'[s][i]
                  was == {j \in 1..Len(cart[s]) :
                            /\ cart[s][j].code = line.code
                            /\ ~addedByPanModal(cart[s][j])}
              IN IF was # {}
                   THEN \A j \in was : line.price = cart[s][j].price
                   ELSE line.price = calcPrice(products[s][line.code].cost,
                                               products[s][line.code].margin)
       /\ Len(pending'[s]) = Len(pending[s]) + 1
            => LET p == pending'[s][Len(pending'[s])]
               IN /\ Len(p.cart) = Len(cart[s])
                  /\ \A i \in 1..Len(cart[s]) : p.cart[i].price = cart[s][i].price
       /\ Len(pending'[s]) = Len(pending[s])
            => \A k \in 1..Len(pending[s]) :
                 /\ Len(pending'[s][k].cart) = Len(pending[s][k].cart)
                 /\ \A i \in 1..Len(pending[s][k].cart) :
                      pending'[s][k].cart[i].price = pending[s][k].cart[i].price
                 /\ (pending[s][k].pc = "run" /\ pending'[s][k].pc = "ok")
                      => LET items == sales'[Len(sales')].items
                         IN /\ Len(items) = Len(pending[s][k].cart)
                            /\ \A i \in 1..Len(items) :
                                 /\ items[i].code = pending[s][k].cart[i].code
                                 /\ items[i].qty = pending[s][k].cart[i].qty
                                 /\ items[i].price = pending[s][k].cart[i].price
    ]_vars

\* C30 witness: the ledger holds a Sale of two units of product A, merged
\* into one line, at a price that is not calcPrice of what the catalog now
\* holds for A, nor of what the snapshot of the session holds.
C30_Witness ==
  \E n \in 1..Len(sales) : \E i \in 1..Len(sales[n].items) :
    LET item == sales[n].items[i]
    IN /\ item.code = "A"
       /\ item.qty = 2 * One
       /\ store["A"].exists
       /\ item.price # calcPrice(store["A"].cost, store["A"].margin)
       /\ item.price # calcPrice(products["s1"]["A"].cost, products["s1"]["A"].margin)

=============================================================================
